---- MODULE Spec2Model ----
(***************************************************************************)
(* Model of the edge-native agentic traffic pipeline:                      *)
(*   IncidentDetectionAgent.process_message  (agents/incident_agent.py)    *)
(*   TrafficLightAgent.decide                (agents/traffic_light_agent.py)*)
(* One pipeline run is a sequence of stages; pc is the position of the     *)
(* run.  The language model, the retriever and the knowledge graph are     *)
(* collaborators: their answers are inputs drawn from small sets.          *)
(*                                                                         *)
(* Encoding of Python values                                               *)
(*   - None for an optional string is the string None ("None"); no road,   *)
(*     label or text of the model is spelled that way.                     *)
(*   - None for an optional list is NoneList (<<None>>).                   *)
(*   - a severity string is a sequence of one-character strings, so that   *)
(*     str.lower() is computed character by character; incident types are  *)
(*     only compared for equality and stay TLA+ strings.                   *)
(*   - a JSON value is a record [t |-> type tag], with the payload v when  *)
(*     it is a string.                                                     *)
(***************************************************************************)
EXTENDS Integers, Sequences, FiniteSets, TLC

VARIABLES
    pc,             \* position of the pipeline run
    data,           \* _classify_incident: the parsed classifier output
    severity,       \* process_message / decide: severity label
    incident_type,  \* process_message / decide: incident type label
    rag_results,    \* the list the retriever returned to the running helper
    similar_cases,  \* process_message: simplified historical cases
    report,         \* process_message: narrative report
    location_hint,  \* decide: the location_hint argument
    road_name,      \* decide: resolved road label
    rag_context,    \* decide: filtered policy evidence
    graph_info,     \* decide: graph context
    kg_calls,       \* calls made to the knowledge graph by the running decide
    decision,       \* decide: the Decision being built / returned
    error,          \* exception that ended the run, or None
    stages,         \* the stages the running request has executed, in order
    last_observation, \* VehicleAgent.last_observation
    kg_present,     \* VehicleAgent.kg is not None
    vpc,            \* per caller: position inside generate_message
    varg,           \* per caller: the sensor_data argument of the call
    vobs,           \* per caller: the local obs
    vmsg,           \* per caller: the value the call returned
    vcalls          \* per caller: collaborator calls made by the call

\* the pipeline run
pvars == <<pc, data, severity, incident_type, rag_results, similar_cases,
           report, location_hint, road_name, rag_context, graph_info,
           kg_calls, decision, error, stages>>

\* the vehicle agent and its callers
vvars == <<last_observation, kg_present, vpc, varg, vobs, vmsg, vcalls>>

vars == <<pc, data, severity, incident_type, rag_results, similar_cases,
          report, location_hint, road_name, rag_context, graph_info,
          kg_calls, decision, error, stages,
          last_observation, kg_present, vpc, varg, vobs, vmsg, vcalls>>

----------------------------------------------------------------------------
(* Bounds *)

\* longest list the retriever returns in the model
MaxResults == 2

\* number of callers of one VehicleAgent
NumCallers == 2

----------------------------------------------------------------------------
(* Python values *)

None == "None"

NoneList == <<None>>

Min(a, b) == IF a < b THEN a ELSE b

\* all sequences over S of length at most n
SeqsUpTo(S, n) == UNION {[1..m -> S] : m \in 0..n}

----------------------------------------------------------------------------
(* Text: str.lower() *)

UpperLetters == <<"A","B","C","D","E","F","G","H","I","J","K","L","M",
                  "N","O","P","Q","R","S","T","U","V","W","X","Y","Z">>

LowerLetters == <<"a","b","c","d","e","f","g","h","i","j","k","l","m",
                  "n","o","p","q","r","s","t","u","v","w","x","y","z">>

LowerChar(c) ==
    IF \E i \in DOMAIN UpperLetters : UpperLetters[i] = c
    THEN LowerLetters[CHOOSE i \in DOMAIN UpperLetters : UpperLetters[i] = c]
    ELSE c

lower(s) == [i \in DOMAIN s |-> LowerChar(s[i])]

----------------------------------------------------------------------------
(* IncidentDetectionAgent.__init__ : allowed labels *)

low      == <<"l","o","w">>
medium   == <<"m","e","d","i","u","m">>
high     == <<"h","i","g","h">>
critical == <<"c","r","i","t","i","c","a","l">>

allowed_severity == <<low, medium, high, critical>>

allowed_incident_types ==
    <<"rear_end_collision", "multi_vehicle_collision", "breakdown",
      "congestion", "event_crowd", "roadwork", "flooding",
      "pedestrian_crossing", "fire", "emergency_delay", "other">>

\* Python's "x in list"
InList(x, l) == \E i \in DOMAIN l : l[i] = x

----------------------------------------------------------------------------
(* Parsed classifier outputs (what json.loads can hand to the validator) *)

JStr(v)  == [t |-> "str",  v |-> v]
JNull    == [t |-> "null"]
JInt     == [t |-> "int"]

RawSeverityStrings ==
    { low, medium, high, critical,
      <<"L","O","W">>, <<"M","e","d","i","u","m">>, <<"H","I","G","H">>,
      <<"H","i","g","h">>, <<"C","R","I","T","I","C","A","L">>,
      <<"s","e","v","e","r","e">>, <<" ","h","i","g","h">>, <<>> }

RawIncidentTypeStrings ==
    { allowed_incident_types[i] : i \in DOMAIN allowed_incident_types }
    \cup { "Fire", "FIRE", "Congestion", "Emergency_Delay", "Other",
           "earthquake", "" }

RawSeverityValues == {JStr(s) : s \in RawSeverityStrings} \cup {JNull, JInt}

RawIncidentTypeValues ==
    {JStr(s) : s \in RawIncidentTypeStrings} \cup {JNull, JInt}

\* a JSON object with any subset of the two keys
JsonObjects ==
    { [severity |-> s, incident_type |-> i] :
          s \in RawSeverityValues, i \in RawIncidentTypeValues }
    \cup { [severity |-> s] : s \in RawSeverityValues }
    \cup { [incident_type |-> i] : i \in RawIncidentTypeValues }
    \cup { [k \in {} |-> JNull] }

\* what the try block of _classify_incident leaves in data:
\*   kind "object": json.loads returned a dict
\*   kind "array" : json.loads returned a value that is not a dict
\*   kind "unparseable": json.loads raised, data is the fallback dict
FallbackData ==
    [severity |-> JStr(medium), incident_type |-> JStr("other")]

ParseOutcomes ==
    { [kind |-> "object", obj |-> o] : o \in JsonObjects }
    \cup { [kind |-> "array", obj |-> [k \in {} |-> JNull]] }
    \cup { [kind |-> "unparseable", obj |-> FallbackData] }

NoData == [kind |-> None, obj |-> [k \in {} |-> JNull]]

\* dict.get(key, default)
DictGet(d, key, default) == IF key \in DOMAIN d THEN d[key] ELSE default

----------------------------------------------------------------------------
(* _classify_incident, label enforcement (incident_agent.py 135-147) *)

\* data.get("severity", "medium").lower() raises AttributeError when data
\* is not a dict or the value is not a str
SeverityRaises(d) ==
    \/ d.kind = "array"
    \/ DictGet(d.obj, "severity", JStr(medium)).t # "str"

ValidateSeverity(d) ==
    LET sev == lower(DictGet(d.obj, "severity", JStr(medium)).v)
    IN  IF InList(sev, allowed_severity) THEN sev ELSE medium

\* variant: the match ignores the case of the label
ValidateIncidentTypeLowered(d) ==
    LET itype == DictGet(d.obj, "incident_type", JStr("other"))
    IN  IF itype.t = "str" /\ itype.v \in {"Fire", "FIRE"} THEN "fire"
        ELSE IF itype.t = "str" /\ InList(itype.v, allowed_incident_types)
             THEN itype.v ELSE "other"

ValidateIncidentType(d) ==
    LET itype == DictGet(d.obj, "incident_type", JStr("other"))
    IN  IF itype.t = "str" /\ InList(itype.v, allowed_incident_types)
        THEN itype.v ELSE "other"

----------------------------------------------------------------------------
(* Retriever (rag.retriever, collaborator): an indexed corpus and the lists
   retrieve(query, k) can return *)

Doc(id, src, road) ==
    [text |-> id, score |-> 1,
     metadata |-> [source |-> src, road_name |-> road,
                   severity_label |-> "high", row_id |-> id]]

Corpus ==
    { Doc("case-1", "incident_case", "King Road"),
      Doc("case-2", "incident_case", None),
      Doc("policy-1", "traffic_policy", None),
      Doc("protocol-1", "emergency_protocol", None),
      Doc("rule-1", "road_rule", "King Road"),
      Doc("bulletin-1", "weather_bulletin", None) }

\* k of the call in process_message
CasesK == 3

\* default k of _fetch_policy_context
PolicyK == 5

Retrievals(k) == SeqsUpTo(Corpus, Min(k, MaxResults))

----------------------------------------------------------------------------
(* _retrieve_similar_cases, the loop over results (incident_agent.py 167-184) *)

Simplify(item) ==
    [road_name      |-> item.metadata.road_name,
     severity_label |-> item.metadata.severity_label,
     row_id         |-> item.metadata.row_id,
     text           |-> item.text,
     score          |-> item.score]

RECURSIVE SimilarCasesLoop(_, _)
SimilarCasesLoop(results, simplified) ==
    IF results = <<>> THEN simplified
    ELSE IF Head(results).metadata.source # "incident_case"
         THEN SimilarCasesLoop(Tail(results), simplified)
         ELSE SimilarCasesLoop(Tail(results),
                               Append(simplified, Simplify(Head(results))))

(* _fetch_policy_context, the loop over results (traffic_light_agent.py 103-109) *)

PolicySources == {"traffic_policy", "emergency_protocol", "road_rule"}

\* variant: a kept item goes to the front of the list
RECURSIVE PolicyLoopPrepend(_, _)
PolicyLoopPrepend(results, filtered) ==
    IF results = <<>> THEN filtered
    ELSE IF Head(results).metadata.source \in PolicySources
         THEN PolicyLoopPrepend(Tail(results), <<Head(results)>> \o filtered)
         ELSE PolicyLoopPrepend(Tail(results), filtered)

RECURSIVE PolicyLoop(_, _)
PolicyLoop(results, filtered) ==
    IF results = <<>> THEN filtered
    ELSE IF Head(results).metadata.source \in PolicySources
         THEN PolicyLoop(Tail(results), Append(filtered, Head(results)))
         ELSE PolicyLoop(Tail(results), filtered)

----------------------------------------------------------------------------
(* Knowledge graph store (kg.kg_utils.TrafficKnowledgeGraph): a static
   labelled graph, adjacency in construction order *)

Nodes ==
    { "Haram Road", "King Road", "Seaside Road", "Old Road",
      "Intersection 1", "Intersection 2", "Intersection 4", "Intersection 5",
      "Intersection 7", "Intersection 8", "Intersection 9",
      "Central Hospital", "East Hospital", "North Hospital" }

NodeType(n) ==
    IF n \in {"Haram Road", "King Road", "Seaside Road", "Old Road"}
    THEN "road"
    ELSE IF n \in {"Central Hospital", "East Hospital", "North Hospital"}
         THEN "hospital"
         ELSE "intersection"

Adjacency(n) ==
    CASE n = "Haram Road"       -> <<"Intersection 4", "Intersection 7">>
      [] n = "Intersection 4"   -> <<"Haram Road", "Intersection 5">>
      [] n = "Intersection 5"   -> <<"Intersection 4", "Central Hospital">>
      [] n = "Central Hospital" -> <<"Intersection 5">>
      [] n = "Intersection 7"   -> <<"Haram Road", "Intersection 8">>
      [] n = "Intersection 8"   -> <<"Intersection 7", "East Hospital">>
      [] n = "East Hospital"    -> <<"Intersection 8">>
      [] n = "King Road"        -> <<"Intersection 1", "Intersection 2">>
      [] n = "Intersection 1"   -> <<"King Road">>
      [] n = "Intersection 2"   -> <<"King Road", "North Hospital">>
      [] n = "North Hospital"   -> <<"Intersection 2">>
      [] n = "Seaside Road"     -> <<"Intersection 9">>
      [] n = "Intersection 9"   -> <<"Seaside Road">>
      [] n = "Old Road"         -> <<>>

Range(f) == {f[i] : i \in DOMAIN f}

\* neighbors(label): fails on a label that is not a node
GetNeighborsRaises(label) == label \notin Nodes

get_neighbors(label) == Adjacency(label)

NotFound == [found |-> FALSE, label |-> None, path |-> <<>>]

\* breadth-first expansion over paths, with a visited set
RECURSIVE NearestSearch(_, _, _)
NearestSearch(queue, visited, ntype) ==
    IF queue = <<>> THEN NotFound
    ELSE LET path == Head(queue)
             node == path[Len(path)]
             Fresh(n) == n \notin visited
             new  == SelectSeq(Adjacency(node), Fresh)
         IN  IF NodeType(node) = ntype
             THEN [found |-> TRUE, label |-> node, path |-> path]
             ELSE NearestSearch(
                      Tail(queue) \o [i \in 1..Len(new) |-> Append(path, new[i])],
                      visited \cup Range(new), ntype)

find_nearest_node_of_type(start, ntype) ==
    NearestSearch(<<(<<start>>)>>, {start}, ntype)

----------------------------------------------------------------------------
(* TrafficLightAgent._compute_graph_context (traffic_light_agent.py 111-156) *)

EmptyInfo ==
    [nearest_hospital |-> None, path_to_hospital |-> NoneList,
     neighbors |-> NoneList]

\* Python truthiness of an optional string / an optional list
TruthyStr(x)  == x # None /\ x # ""
TruthyList(x) == x # NoneList /\ x # <<>>

\* variant: high severity and the fire type do not trigger the search
SearchTriggeredNarrow(sev, itype) ==
    \/ sev = critical
    \/ itype \in {"emergency_delay", "multi_vehicle_collision"}

\* variant: both conditions required
SearchTriggeredBoth(sev, itype) ==
    /\ sev \in {high, critical}
    /\ itype \in {"emergency_delay", "multi_vehicle_collision", "fire"}

SearchTriggered(sev, itype) ==
    \/ sev \in {high, critical}
    \/ itype \in {"emergency_delay", "multi_vehicle_collision", "fire"}

NoBest == [target |-> None, path |-> NoneList]

\* variant: a candidate of equal length replaces the best
RECURSIVE HospitalLoopLastWins(_, _)
HospitalLoopLastWins(nbs, best) ==
    IF nbs = <<>> THEN best
    ELSE LET result == find_nearest_node_of_type(Head(nbs), "hospital")
         IN  IF ~result.found
             THEN HospitalLoopLastWins(Tail(nbs), best)
             ELSE IF best.path = NoneList \/ Len(result.path) <= Len(best.path)
                  THEN HospitalLoopLastWins(Tail(nbs),
                           [target |-> result.label, path |-> result.path])
                  ELSE HospitalLoopLastWins(Tail(nbs), best)

\* the for loop over neighbors, best = (best_target, best_path)
RECURSIVE HospitalLoop(_, _)
HospitalLoop(nbs, best) ==
    IF nbs = <<>> THEN best
    ELSE LET result == find_nearest_node_of_type(Head(nbs), "hospital")
         IN  IF ~result.found
             THEN HospitalLoop(Tail(nbs), best)
             ELSE IF best.path = NoneList \/ Len(result.path) < Len(best.path)
                  THEN HospitalLoop(Tail(nbs),
                           [target |-> result.label, path |-> result.path])
                  ELSE HospitalLoop(Tail(nbs), best)

\* the calls the loop makes to the store
SearchCalls(nbs) ==
    [i \in 1..Len(nbs) |->
        [op |-> "find_nearest_node_of_type", arg |-> nbs[i]]]

NeighborCall(road) == <<[op |-> "get_neighbors", arg |-> road]>>

\* variant: the early return is missing
RoadAbsentSkipped(road) == FALSE

\* "if not road_name"
RoadAbsent(road) == ~TruthyStr(road)

\* result of the call: raised, the info returned, the store calls made
compute_graph_context(road, sev, itype) ==
    IF RoadAbsent(road)
    THEN [raised |-> FALSE, info |-> EmptyInfo, calls |-> <<>>]
    ELSE IF GetNeighborsRaises(road)
    THEN [raised |-> TRUE, info |-> EmptyInfo, calls |-> NeighborCall(road)]
    ELSE LET neighbors == get_neighbors(road)
             info1 == [EmptyInfo EXCEPT !.neighbors = neighbors]
         IN  IF SearchTriggered(sev, itype)
             THEN LET best == HospitalLoop(neighbors, NoBest)
                  IN  [raised |-> FALSE,
                       info |-> IF TruthyStr(best.target) /\ TruthyList(best.path)
                                THEN [info1 EXCEPT
                                        !.nearest_hospital = best.target,
                                        !.path_to_hospital = best.path]
                                ELSE info1,
                       calls |-> NeighborCall(road) \o SearchCalls(neighbors)]
             ELSE [raised |-> FALSE, info |-> info1,
                   calls |-> NeighborCall(road)]

----------------------------------------------------------------------------
(* TrafficLightAgent._choose_action (traffic_light_agent.py 158-205) *)

EmergencyTypes == {"emergency_delay", "fire", "multi_vehicle_collision"}
CongestionTypes == {"congestion", "event_crowd", "roadwork"}

\* variant: rule 2 also takes critical severity
choose_action_rule2_first(sev, itype, road, ginfo) ==
    IF sev \in {medium, high, critical} /\ itype \in CongestionTypes
    THEN [action |-> "rebalance_signal_timing",
          parameters |->
              [extend_green_seconds |-> 15, target_road |-> road,
               note |-> "favor congested approach and monitor queues"]]
    ELSE IF sev \in {high, critical} /\ itype \in EmergencyTypes
    THEN [action |-> "give_emergency_priority",
          parameters |->
              IF TruthyList(ginfo.path_to_hospital)
              THEN [extend_green_seconds |-> 30, target_road |-> road,
                    priority_route |-> ginfo.path_to_hospital]
              ELSE [extend_green_seconds |-> 30, target_road |-> road]]
    ELSE IF sev = low
    THEN [action |-> "monitor_and_log",
          parameters |->
              [target_road |-> road,
               note |-> "no strong intervention required, just observation"]]
    ELSE [action |-> "default_safe_operation",
          parameters |->
              [target_road |-> road,
               note |-> "keep normal signal plan with minor adjustments"]]

choose_action(sev, itype, road, ginfo) ==
    IF sev \in {high, critical} /\ itype \in EmergencyTypes
    THEN [action |-> "give_emergency_priority",
          parameters |->
              IF TruthyList(ginfo.path_to_hospital)
              THEN [extend_green_seconds |-> 30, target_road |-> road,
                    priority_route |-> ginfo.path_to_hospital]
              ELSE [extend_green_seconds |-> 30, target_road |-> road]]
    ELSE IF sev \in {medium, high} /\ itype \in CongestionTypes
    THEN [action |-> "rebalance_signal_timing",
          parameters |->
              [extend_green_seconds |-> 15, target_road |-> road,
               note |-> "favor congested approach and monitor queues"]]
    ELSE IF sev = low
    THEN [action |-> "monitor_and_log",
          parameters |->
              [target_road |-> road,
               note |-> "no strong intervention required, just observation"]]
    ELSE [action |-> "default_safe_operation",
          parameters |->
              [target_road |-> road,
               note |-> "keep normal signal plan with minor adjustments"]]

\* the conditions of the if / elif chain, by position (lines 171, 182, 192)
\* variant: rule 2 also takes the fire type
RuleCondOverlap(k, sev, itype) ==
    CASE k = 1 -> sev \in {high, critical} /\ itype \in EmergencyTypes
      [] k = 2 -> sev \in {medium, high} /\ itype \in CongestionTypes \cup {"fire"}
      [] k = 3 -> sev = low

RuleCond(k, sev, itype) ==
    CASE k = 1 -> sev \in {high, critical} /\ itype \in EmergencyTypes
      [] k = 2 -> sev \in {medium, high} /\ itype \in CongestionTypes
      [] k = 3 -> sev = low

\* the action each branch assigns, 4 is the else branch
RuleAction(k) ==
    CASE k = 1 -> "give_emergency_priority"
      [] k = 2 -> "rebalance_signal_timing"
      [] k = 3 -> "monitor_and_log"
      [] k = 4 -> "default_safe_operation"

----------------------------------------------------------------------------
(* TrafficLightAgent.decide, road resolution (traffic_light_agent.py 51-56) *)

\* variant: the last historical case names the road
resolve_road_last_case(hint, sims) ==
    IF hint # None THEN hint
    ELSE IF sims # <<>> THEN sims[Len(sims)].road_name
    ELSE None

resolve_road(hint, sims) ==
    IF hint # None THEN hint
    ELSE IF sims # <<>> THEN sims[1].road_name
    ELSE None

----------------------------------------------------------------------------
(* VehicleAgent (agents/vehicle_agent.py) *)

\* callers that use one VehicleAgent object
Callers == 1..NumCallers

\* None where a dict is expected
NoneDict == [none |-> TRUE]

\* sensor readings: a road of the graph, a road the graph does not have,
\* a reading without the road key
SensorData ==
    { [road |-> "Haram Road", vehicle_type |-> "ambulance", speed |-> 8],
      [road |-> "Airport Road", vehicle_type |-> "private_car"],
      [road |-> "Seaside Road", congestion_level |-> "medium", speed |-> 35],
      [vehicle_type |-> "bus", congestion_level |-> "medium"] }

NoMessage == [kind |-> "none"]

\* line 86
NoObservationMessage ==
    [kind |-> "fixed", text |-> "[VehicleAgent] No observation available."]

\* what the retriever can answer to the vehicle query
VehicleRetrievals ==
    SeqsUpTo({Doc("rule-1", "road_rule", "King Road")}, Min(1, MaxResults))

\* _format_context
format_context(rag_results_) ==
    IF rag_results_ = <<>> THEN <<"No additional context found.">>
    ELSE [i \in DOMAIN rag_results_ |-> rag_results_[i].text]

NoNote == [road |-> None, connected |-> <<>>]

\* lines 98-108, for a road the store knows
kg_note(obs) ==
    IF kg_present /\ "road" \in DOMAIN obs
    THEN LET neighbors == get_neighbors(obs.road)
         IN  IF neighbors # <<>>
             THEN [road |-> obs.road,
                   connected |-> SubSeq(neighbors, 1, Min(3, Len(neighbors)))]
             ELSE NoNote
    ELSE NoNote

\* the store lookup of line 102 fails
KgNoteRaises(obs) ==
    kg_present /\ "road" \in DOMAIN obs /\ GetNeighborsRaises(obs.road)

\* the text generator is a function of the prompt of lines 111-129
LlmMessage(obs, context, note) ==
    [kind |-> "llm", obs |-> obs, context |-> context, kg_note |-> note]

CallerOutside(c) == vpc[c] \in {"idle", "returned", "raised"}

\* observe(sensor_data), lines 29-41
Observe(c, d) ==
    /\ CallerOutside(c)
    /\ last_observation' = d
    /\ UNCHANGED <<kg_present, vpc, varg, vobs, vmsg, vcalls>>
    /\ UNCHANGED pvars

\* variant: the argument is not stored
GmEnterNoStore(c, a) ==
    /\ CallerOutside(c)
    /\ varg' = [varg EXCEPT ![c] = a]
    /\ vobs' = [vobs EXCEPT ![c] = NoneDict]
    /\ vmsg' = [vmsg EXCEPT ![c] = NoMessage]
    /\ vcalls' = [vcalls EXCEPT ![c] = <<>>]
    /\ UNCHANGED last_observation
    /\ vpc' = [vpc EXCEPT ![c] = "entered"]
    /\ UNCHANGED kg_present
    /\ UNCHANGED pvars

\* generate_message(sensor_data), lines 82-83: store the argument if given
GmEnter(c, a) ==
    /\ CallerOutside(c)
    /\ varg' = [varg EXCEPT ![c] = a]
    /\ vobs' = [vobs EXCEPT ![c] = NoneDict]
    /\ vmsg' = [vmsg EXCEPT ![c] = NoMessage]
    /\ vcalls' = [vcalls EXCEPT ![c] = <<>>]
    /\ IF a # NoneDict
       THEN last_observation' = a
       ELSE UNCHANGED last_observation
    /\ vpc' = [vpc EXCEPT ![c] = "entered"]
    /\ UNCHANGED kg_present
    /\ UNCHANGED pvars

\* lines 85-86: return the fixed message when nothing is stored
GmCheck(c) ==
    /\ vpc[c] = "entered"
    /\ IF last_observation = NoneDict
       THEN /\ vmsg' = [vmsg EXCEPT ![c] = NoObservationMessage]
            /\ vpc' = [vpc EXCEPT ![c] = "returned"]
       ELSE /\ vpc' = [vpc EXCEPT ![c] = "checked"]
            /\ UNCHANGED vmsg
    /\ UNCHANGED <<last_observation, kg_present, varg, vobs, vcalls>>
    /\ UNCHANGED pvars

\* line 88: obs = self.last_observation
GmReadObservation(c) ==
    /\ vpc[c] = "checked"
    /\ vobs' = [vobs EXCEPT ![c] = last_observation]
    /\ vpc' = [vpc EXCEPT ![c] = "read"]
    /\ UNCHANGED <<last_observation, kg_present, varg, vmsg, vcalls>>
    /\ UNCHANGED pvars

\* lines 90-132: retrieve, graph note, prompt, text generation, return
GmBuildMessage(c) ==
    /\ vpc[c] = "read"
    /\ \E results \in VehicleRetrievals :
          IF KgNoteRaises(vobs[c])
          THEN /\ vpc' = [vpc EXCEPT ![c] = "raised"]
               /\ vcalls' = [vcalls EXCEPT
                               ![c] = <<"rag.retrieve", "kg.get_neighbors">>]
               /\ UNCHANGED vmsg
          ELSE /\ vpc' = [vpc EXCEPT ![c] = "returned"]
               /\ vcalls' = [vcalls EXCEPT ![c] =
                     IF kg_present /\ "road" \in DOMAIN vobs[c]
                     THEN <<"rag.retrieve", "kg.get_neighbors", "call_llm">>
                     ELSE <<"rag.retrieve", "call_llm">>]
               /\ vmsg' = [vmsg EXCEPT ![c] =
                     LlmMessage(vobs[c], format_context(results),
                                kg_note(vobs[c]))]
    /\ UNCHANGED <<last_observation, kg_present, varg, vobs>>
    /\ UNCHANGED pvars

----------------------------------------------------------------------------
(* The pipeline run *)

LocationHints ==
    {None, "Haram Road", "King Road", "Seaside Road", "Old Road",
     "Airport Road"}

NoDecision == [action |-> None]

ReportText == "report"
ExplanationText == "explanation"

\* VehicleAgent.__init__, lines 16-23, and callers that have not called yet
VehicleStart ==
    /\ last_observation = NoneDict
    /\ vpc = [c \in Callers |-> "idle"]
    /\ varg = [c \in Callers |-> NoneDict]
    /\ vobs = [c \in Callers |-> NoneDict]
    /\ vmsg = [c \in Callers |-> NoMessage]
    /\ vcalls = [c \in Callers |-> <<>>]

Init ==
    /\ kg_present = TRUE
    /\ VehicleStart
    /\ stages = <<>>
    /\ pc = "idle"
    /\ data = NoData
    /\ severity = <<>>
    /\ incident_type = None
    /\ rag_results = <<>>
    /\ similar_cases = <<>>
    /\ report = None
    /\ location_hint = None
    /\ road_name = None
    /\ rag_context = <<>>
    /\ graph_info = EmptyInfo
    /\ kg_calls = <<>>
    /\ decision = NoDecision
    /\ error = None

\* process_message step 1: _classify_incident, from the parsed output on
ClassifyIncident ==
    /\ pc = "idle"
    /\ \E d \in ParseOutcomes :
          /\ data' = d
          /\ IF SeverityRaises(d)
             THEN /\ pc' = "failed"
                  /\ error' = "AttributeError"
                  /\ UNCHANGED <<severity, incident_type>>
             ELSE /\ pc' = "classified"
                  /\ severity' = ValidateSeverity(d)
                  /\ incident_type' = ValidateIncidentType(d)
                  /\ UNCHANGED error
    /\ UNCHANGED <<rag_results, similar_cases, report, location_hint,
                   road_name, rag_context, graph_info, kg_calls, decision>>
    /\ stages' = Append(stages, "classification")
    /\ UNCHANGED vvars

\* process_message step 2: _retrieve_similar_cases
RetrieveSimilarCases ==
    /\ pc = "classified"
    /\ \E results \in Retrievals(CasesK) :
          /\ rag_results' = results
          /\ similar_cases' = SimilarCasesLoop(results, <<>>)
    /\ data' = NoData
    /\ pc' = "retrieved"
    /\ UNCHANGED <<severity, incident_type, report, location_hint, road_name,
                   rag_context, graph_info, kg_calls, decision, error>>
    /\ stages' = Append(stages, "case_retrieval")
    /\ UNCHANGED vvars

\* process_message step 3: _generate_report and the return
GenerateReport ==
    /\ pc = "retrieved"
    /\ report' = ReportText
    /\ rag_results' = <<>>
    /\ pc' = "reported"
    /\ UNCHANGED <<data, severity, incident_type, similar_cases,
                   location_hint, road_name, rag_context, graph_info,
                   kg_calls, decision, error>>
    /\ stages' = Append(stages, "report_generation")
    /\ UNCHANGED vvars

\* decide, lines 48-56: read the report, resolve the road
ResolveRoad ==
    /\ pc = "reported"
    /\ \E hint \in LocationHints :
          /\ location_hint' = hint
          /\ road_name' = resolve_road(hint, similar_cases)
    /\ pc' = "resolved"
    /\ UNCHANGED <<data, severity, incident_type, rag_results, similar_cases,
                   report, rag_context, graph_info, kg_calls, decision, error>>
    /\ stages' = Append(stages, "road_resolution")
    /\ UNCHANGED vvars

\* decide step 1: _fetch_policy_context
FetchPolicyContext ==
    /\ pc = "resolved"
    /\ \E results \in Retrievals(PolicyK) :
          /\ rag_results' = results
          /\ rag_context' = PolicyLoop(results, <<>>)
    /\ pc' = "policy"
    /\ UNCHANGED <<data, severity, incident_type, similar_cases, report,
                   location_hint, road_name, graph_info, kg_calls, decision,
                   error>>
    /\ stages' = Append(stages, "policy_retrieval")
    /\ UNCHANGED vvars

\* decide step 2: _compute_graph_context
ComputeGraphContext ==
    /\ pc = "policy"
    /\ LET r == compute_graph_context(road_name, severity, incident_type)
       IN  /\ kg_calls' = r.calls
           /\ IF r.raised
              THEN /\ pc' = "failed"
                   /\ error' = "UnknownNodeError"
                   /\ UNCHANGED graph_info
              ELSE /\ pc' = "graph"
                   /\ graph_info' = r.info
                   /\ UNCHANGED error
    /\ rag_results' = <<>>
    /\ UNCHANGED <<data, severity, incident_type, similar_cases, report,
                   location_hint, road_name, rag_context, decision>>
    /\ stages' = Append(stages, "graph_context")
    /\ UNCHANGED vvars

\* variant: the action is chosen before the graph context is computed
ChooseActionBeforeGraph ==
    /\ pc = "policy"
    /\ decision' = choose_action(severity, incident_type, road_name, graph_info)
    /\ pc' = "chosen"
    /\ UNCHANGED <<data, severity, incident_type, rag_results, similar_cases,
                   report, location_hint, road_name, rag_context, graph_info,
                   kg_calls, error>>
    /\ stages' = Append(stages, "action_selection")
    /\ UNCHANGED vvars

\* decide step 3: _choose_action
ChooseAction ==
    /\ pc = "graph"
    /\ decision' = choose_action(severity, incident_type, road_name, graph_info)
    /\ pc' = "chosen"
    /\ UNCHANGED <<data, severity, incident_type, rag_results, similar_cases,
                   report, location_hint, road_name, rag_context, graph_info,
                   kg_calls, error>>
    /\ stages' = Append(stages, "action_selection")
    /\ UNCHANGED vvars

\* decide step 4: _generate_explanation, attach it, return
GenerateExplanation ==
    /\ pc = "chosen"
    /\ decision' = [action |-> decision.action,
                    parameters |-> decision.parameters,
                    explanation |-> ExplanationText]
    /\ pc' = "done"
    /\ UNCHANGED <<data, severity, incident_type, rag_results, similar_cases,
                   report, location_hint, road_name, rag_context, graph_info,
                   kg_calls, error>>
    /\ stages' = Append(stages, "explanation")
    /\ UNCHANGED vvars

\* the next scenario starts with fresh locals (main.py 85-86)
NewRun ==
    /\ pc \in {"done", "failed"}
    /\ pc' = "idle"
    /\ data' = NoData
    /\ severity' = <<>>
    /\ incident_type' = None
    /\ rag_results' = <<>>
    /\ similar_cases' = <<>>
    /\ report' = None
    /\ location_hint' = None
    /\ road_name' = None
    /\ rag_context' = <<>>
    /\ graph_info' = EmptyInfo
    /\ kg_calls' = <<>>
    /\ decision' = NoDecision
    /\ error' = None
    /\ stages' = <<>>
    /\ UNCHANGED vvars

Next ==
    \/ ClassifyIncident
    \/ RetrieveSimilarCases
    \/ GenerateReport
    \/ ResolveRoad
    \/ FetchPolicyContext
    \/ ComputeGraphContext
    \/ ChooseAction
    \/ GenerateExplanation
    \/ NewRun

Spec == Init /\ [][Next]_vars

----------------------------------------------------------------------------
(* One VehicleAgent used by its callers *)

\* the agent is built with or without a graph
InitVehicle ==
    /\ kg_present \in BOOLEAN
    /\ VehicleStart
    /\ stages = <<>>
    /\ pc = "idle"
    /\ data = NoData
    /\ severity = <<>>
    /\ incident_type = None
    /\ rag_results = <<>>
    /\ similar_cases = <<>>
    /\ report = None
    /\ location_hint = None
    /\ road_name = None
    /\ rag_context = <<>>
    /\ graph_info = EmptyInfo
    /\ kg_calls = <<>>
    /\ decision = NoDecision
    /\ error = None

\* pipeline invocations (main.py 26: generate_message) from any caller,
\* steps interleaved
NextVehicle ==
    \/ \E c \in Callers, a \in SensorData \cup {NoneDict} : GmEnter(c, a)
    \/ \E c \in Callers : GmCheck(c)
    \/ \E c \in Callers : GmReadObservation(c)
    \/ \E c \in Callers : GmBuildMessage(c)

SpecVehicle == InitVehicle /\ [][NextVehicle]_vars

\* calls from one caller, one after the other
NextVehicleSeq ==
    \/ \E d \in SensorData : Observe(1, d)
    \/ \E a \in SensorData \cup {NoneDict} : GmEnter(1, a)
    \/ GmCheck(1)
    \/ GmReadObservation(1)
    \/ GmBuildMessage(1)

SpecVehicleSeq == InitVehicle /\ [][NextVehicleSeq]_vars

----------------------------------------------------------------------------
(* Properties *)

\* positions at which decide has run its graph stage to the end
AfterGraph == {"graph", "chosen", "done"}

\* positions at which decide holds a Decision
AfterChoice == {"chosen", "done"}

Rule1 == severity \in {high, critical}
         /\ incident_type \in {"emergency_delay", "fire", "multi_vehicle_collision"}
Rule2 == severity \in {medium, high}
         /\ incident_type \in {"congestion", "event_crowd", "roadwork"}
Rule3 == severity = low

PathPresent == graph_info.path_to_hospital # NoneList

\* C1: the Decision of _choose_action is the one of the first matching row
\* of the rule table (action, extend_green_seconds, note, priority_route
\* exactly when the graph context has a path), and target_road is a
\* parameter of every Decision, null included.
C1_DecisionFollowsRuleTable ==
    pc \in AfterChoice =>
        LET p == decision.parameters
        IN  /\ "target_road" \in DOMAIN p
            /\ p.target_road = road_name
            /\ Rule1 =>
                  /\ decision.action = "give_emergency_priority"
                  /\ p.extend_green_seconds = 30
                  /\ PathPresent =>
                        /\ DOMAIN p = {"extend_green_seconds", "target_road",
                                       "priority_route"}
                        /\ p.priority_route = graph_info.path_to_hospital
                  /\ ~PathPresent =>
                        DOMAIN p = {"extend_green_seconds", "target_road"}
            /\ (~Rule1 /\ Rule2) =>
                  /\ decision.action = "rebalance_signal_timing"
                  /\ DOMAIN p = {"extend_green_seconds", "target_road", "note"}
                  /\ p.extend_green_seconds = 15
                  /\ p.note = "favor congested approach and monitor queues"
            /\ (~Rule1 /\ ~Rule2 /\ Rule3) =>
                  /\ decision.action = "monitor_and_log"
                  /\ DOMAIN p = {"target_road", "note"}
                  /\ p.note = "no strong intervention required, just observation"
            /\ (~Rule1 /\ ~Rule2 /\ ~Rule3) =>
                  /\ decision.action = "default_safe_operation"
                  /\ DOMAIN p = {"target_road", "note"}
                  /\ p.note = "keep normal signal plan with minor adjustments"

\* C1 witness: rule 1 fired on a road with a hospital path
C1_Witness ==
    /\ pc = "chosen"
    /\ severity = critical
    /\ incident_type = "emergency_delay"
    /\ decision.action = "give_emergency_priority"
    /\ "priority_route" \in DOMAIN decision.parameters

AllowedSeveritySet == {low, medium, high, critical}

IncidentTypeEnum ==
    {"rear_end_collision", "multi_vehicle_collision", "breakdown",
     "congestion", "event_crowd", "roadwork", "flooding",
     "pedestrian_crossing", "fire", "emergency_delay", "other"}

\* the validator has been handed a JSON object
ValidatorRanOnObject == data.kind = "object"

\* C2: the label enforcement never fails: for every parsed classifier
\* object (severity or incident_type null, absent or not a string included)
\* it returns a severity of the four-member enum and an incident type of
\* the eleven-member enum.
C2_ValidationTotal ==
    ValidatorRanOnObject =>
        /\ pc = "classified"
        /\ error = None
        /\ severity \in AllowedSeveritySet
        /\ incident_type \in IncidentTypeEnum

\* C7: severity validation ignores case: a raw severity string that is one
\* of the four labels after lower-casing gives that label, every other raw
\* severity (null and absent included) gives medium.
C7_SeverityCaseInsensitive ==
    ValidatorRanOnObject =>
        /\ pc = "classified"
        /\ LET present == "severity" \in DOMAIN data.obj
               isLabel == /\ present
                          /\ data.obj.severity.t = "str"
                          /\ lower(data.obj.severity.v) \in AllowedSeveritySet
           IN  IF isLabel
               THEN severity = lower(data.obj.severity.v)
               ELSE severity = medium

\* C8: incident-type validation is an exact match: the raw incident type is
\* returned unchanged exactly when it is one of the eleven enum members,
\* every other value (case variant, null, absent) is returned as other.
C8_IncidentTypeExactMatch ==
    pc = "classified" =>
        LET present  == "incident_type" \in DOMAIN data.obj
            isMember == /\ present
                        /\ data.obj.incident_type.t = "str"
                        /\ data.obj.incident_type.v \in IncidentTypeEnum
        IN  IF isMember
            THEN incident_type = data.obj.incident_type.v
            ELSE incident_type = "other"

\* C8 witness: a case variant of a valid member was folded to other
C8_Witness ==
    /\ pc = "classified"
    /\ "incident_type" \in DOMAIN data.obj
    /\ data.obj.incident_type = JStr("Fire")
    /\ incident_type = "other"

\* the resolver has looked up the neighbors of a road the graph does not have
UnknownRoadLookedUp ==
    /\ road_name # None
    /\ road_name \notin Nodes
    /\ kg_calls # <<>>

\* C3: a road label that is not a node of the graph does not end the run:
\* the resolver returns the empty GraphContext and decide goes on to a
\* Decision.
C3_UnknownRoadContained ==
    UnknownRoadLookedUp =>
        /\ error = None
        /\ pc \in AfterGraph
        /\ graph_info = EmptyInfo

IsSearchCall(c) == c.op = "find_nearest_node_of_type"

\* C4: for a road of the graph the nearest-hospital search runs on the
\* neighbors if and only if severity is high or critical, or the incident
\* type is emergency_delay, multi_vehicle_collision or fire; without the
\* trigger no search call is made and only the neighbor list is set.
C4_SearchIffTriggered ==
    (pc \in AfterGraph /\ road_name \in Nodes) =>
        LET trigger == \/ severity \in {high, critical}
                       \/ incident_type \in {"emergency_delay",
                                             "multi_vehicle_collision", "fire"}
            nbs == Adjacency(road_name)
            searches == SelectSeq(kg_calls, IsSearchCall)
        IN  /\ graph_info.neighbors = nbs
            /\ trigger =>
                  /\ Len(searches) = Len(nbs)
                  /\ \A i \in DOMAIN nbs : searches[i].arg = nbs[i]
            /\ ~trigger =>
                  /\ searches = <<>>
                  /\ graph_info.nearest_hospital = None
                  /\ graph_info.path_to_hospital = NoneList

\* C4 witness: high severity alone (type outside the emergency set)
\* triggered the search
C4_Witness ==
    /\ pc = "graph"
    /\ road_name = "King Road"
    /\ severity = high
    /\ incident_type = "congestion"
    /\ Len(kg_calls) = 3
    /\ graph_info.nearest_hospital = "North Hospital"

\* C5: when the search is triggered the (hospital, path) pair is the result
\* of the first neighbor, in neighbor order, whose path has the minimum
\* length among the neighbors that reach a hospital; both fields stay unset
\* when no neighbor reaches one.
C5_FirstMinimumWins ==
    (pc \in AfterGraph /\ road_name \in Nodes
        /\ (severity \in {high, critical}
            \/ incident_type \in {"emergency_delay",
                                  "multi_vehicle_collision", "fire"})) =>
        LET nbs == Adjacency(road_name)
            R(i) == find_nearest_node_of_type(nbs[i], "hospital")
            reach == {i \in DOMAIN nbs : R(i).found}
        IN  IF reach = {}
            THEN /\ graph_info.nearest_hospital = None
                 /\ graph_info.path_to_hospital = NoneList
            ELSE LET shortest == {i \in reach :
                                    \A j \in reach :
                                       Len(R(i).path) <= Len(R(j).path)}
                     first == CHOOSE i \in shortest :
                                    \A j \in shortest : i <= j
                 IN  /\ graph_info.nearest_hospital = R(first).label
                     /\ graph_info.path_to_hospital = R(first).path

\* C5 witness: two neighbors of Haram Road reach different hospitals by
\* paths of the same length, the earlier neighbor's result is returned
C5_Witness ==
    /\ pc = "graph"
    /\ road_name = "Haram Road"
    /\ severity = critical
    /\ graph_info.nearest_hospital = "Central Hospital"
    /\ graph_info.path_to_hospital =
           <<"Intersection 4", "Intersection 5", "Central Hospital">>

\* C6: without a road label the resolver returns the empty GraphContext and
\* calls the store neither for neighbors nor for a nearest-of-type search,
\* whatever the severity and incident type.
C6_NoRoadNoGraphQuery ==
    road_name = None =>
        /\ kg_calls = <<>>
        /\ error # "UnknownNodeError"
        /\ graph_info = EmptyInfo

\* C6 witness: the graph stage ran without a road on a triggering incident
C6_Witness ==
    /\ pc = "graph"
    /\ road_name = None
    /\ severity = critical
    /\ incident_type = "fire"

\* indices of the items of results whose source kind is allowed
KeptIndices(results, allowed) ==
    {i \in DOMAIN results : results[i].metadata.source \in allowed}

\* out lines up, in order, with exactly the allowed items of results
Corresponds(results, allowed, out, Same(_, _)) ==
    LET kept == KeptIndices(results, allowed)
    IN  /\ Len(out) = Cardinality(kept)
        /\ \E f \in [DOMAIN out -> kept] :
              /\ \A i, j \in DOMAIN out : i < j => f[i] < f[j]
              /\ \A i \in DOMAIN out : Same(out[i], results[f[i]])

SameCase(c, item) ==
    /\ c.row_id = item.metadata.row_id
    /\ c.road_name = item.metadata.road_name
    /\ c.severity_label = item.metadata.severity_label
    /\ c.text = item.text
    /\ c.score = item.score

SameItem(x, item) == x = item

\* C9: at both call sites the filter output lines up one to one, in the
\* same relative order, with exactly the retrieved items whose source kind
\* is in the allow-list.
C9_FilterKeepsAllowedInOrder ==
    /\ pc = "retrieved" =>
          Corresponds(rag_results, {"incident_case"}, similar_cases, SameCase)
    /\ pc = "policy" =>
          Corresponds(rag_results,
                      {"traffic_policy", "emergency_protocol", "road_rule"},
                      rag_context, SameItem)

\* C9 witness: the policy filter kept two items of different kinds
C9_Witness ==
    /\ pc = "policy"
    /\ Len(rag_results) = 2
    /\ Len(rag_context) = 2
    /\ rag_context[1].metadata.source = "emergency_protocol"
    /\ rag_context[2].metadata.source = "road_rule"

\* positions at which decide has resolved the road
AfterResolve == {"resolved", "policy", "graph", "chosen", "done"}

\* C10: the road is the hint when a hint is given, otherwise the road_name
\* of the first retained historical case when there is one, otherwise
\* unset; the same road is the Decision's target_road.
C10_RoadResolutionOrder ==
    /\ pc \in AfterResolve =>
          /\ location_hint # None => road_name = location_hint
          /\ (location_hint = None /\ Len(similar_cases) > 0) =>
                road_name = Head(similar_cases).road_name
          /\ (location_hint = None /\ Len(similar_cases) = 0) =>
                road_name = None
    /\ pc \in AfterChoice => decision.parameters.target_road = road_name

\* C10 witness: no hint, two retained cases naming different roads
C10_Witness ==
    /\ pc = "done"
    /\ location_hint = None
    /\ Len(similar_cases) = 2
    /\ similar_cases[1].road_name = "King Road"
    /\ similar_cases[2].road_name = None
    /\ decision.parameters.target_road = "King Road"

\* the action an if / elif chain testing the three conditions in the given
\* order selects
ActionInOrder(order, sev, itype) ==
    IF RuleCond(order[1], sev, itype) THEN RuleAction(order[1])
    ELSE IF RuleCond(order[2], sev, itype) THEN RuleAction(order[2])
    ELSE IF RuleCond(order[3], sev, itype) THEN RuleAction(order[3])
    ELSE RuleAction(4)

RuleOrders == Permutations({1, 2, 3})

\* C11 (as stated): some incident type at severity high satisfies the
\* conditions of both rule 1 and rule 2, is decided give_emergency_priority,
\* and would be decided otherwise with rule 2 tested first.
C11_RulesOverlapAtHigh ==
    pc \in AfterChoice =>
        \E itype \in IncidentTypeEnum :
            /\ RuleCond(1, high, itype)
            /\ RuleCond(2, high, itype)
            /\ choose_action(high, itype, road_name, graph_info).action
                   = "give_emergency_priority"
            /\ ActionInOrder(<<2, 1, 3>>, high, itype)
                   # "give_emergency_priority"

\* C11 (amended): at most one of the three rule conditions holds for the
\* incident decided, severity high included, and the action selected is the
\* one every order of testing the three conditions selects.
C11_RulesExclusive ==
    pc \in AfterChoice =>
        /\ Cardinality({k \in {1, 2, 3} :
                           RuleCond(k, severity, incident_type)}) <= 1
        /\ \A order \in RuleOrders :
              ActionInOrder(order, severity, incident_type) = decision.action

\* C11 witness: severity high with an emergency type: rule 1 holds, rule 2
\* does not
C11_Witness ==
    /\ pc = "chosen"
    /\ severity = high
    /\ incident_type = "fire"
    /\ RuleCond(1, severity, incident_type)
    /\ ~RuleCond(2, severity, incident_type)
    /\ decision.action = "give_emergency_priority"

\* some neighbor of the road reaches a hospital
SomeNeighborReachesHospital(road) ==
    \E i \in DOMAIN Adjacency(road) :
        find_nearest_node_of_type(Adjacency(road)[i], "hospital").found

\* C14: when give_emergency_priority is selected for a road of the graph the
\* hospital search ran on every neighbor for that request and the Decision
\* carries priority_route exactly when some neighbor reaches a hospital;
\* a Decision with another action never carries priority_route.
C14_PriorityRouteOnlyWithSearch ==
    pc \in AfterChoice =>
        LET p == decision.parameters
            searches == SelectSeq(kg_calls, IsSearchCall)
        IN  /\ (decision.action = "give_emergency_priority"
                  /\ road_name \in Nodes) =>
                  /\ Len(searches) = Len(Adjacency(road_name))
                  /\ \A i \in DOMAIN searches :
                        searches[i].arg = Adjacency(road_name)[i]
                  /\ "priority_route" \in DOMAIN p
                        <=> SomeNeighborReachesHospital(road_name)
            /\ decision.action # "give_emergency_priority" =>
                  "priority_route" \notin DOMAIN p

\* C14 witness: emergency priority at severity high on a road whose
\* neighbors reach a hospital
C14_Witness ==
    /\ pc = "chosen"
    /\ severity = high
    /\ incident_type = "multi_vehicle_collision"
    /\ road_name = "Haram Road"
    /\ decision.action = "give_emergency_priority"
    /\ decision.parameters.priority_route =
           <<"Intersection 4", "Intersection 5", "Central Hospital">>

\* the stages of the claimed order
ClaimedStages ==
    <<"classification", "case_retrieval", "road_resolution", "graph_context",
      "action_selection", "explanation">>

IsClaimedStage(st) == \E i \in DOMAIN ClaimedStages : ClaimedStages[i] = st

IsPrefix(a, b) == Len(a) <= Len(b) /\ SubSeq(b, 1, Len(a)) = a

\* what a request has executed is an initial part of the order, all of it
\* once the Decision is returned; a Decision is chosen from the graph
\* context of its own request
StagesInOrder ==
    /\ IsPrefix(SelectSeq(stages, IsClaimedStage), ClaimedStages)
    /\ pc = "done" => SelectSeq(stages, IsClaimedStage) = ClaimedStages
    /\ pc \in AfterChoice =>
          /\ graph_info =
               compute_graph_context(road_name, severity, incident_type).info
          /\ decision.action =
               choose_action(severity, incident_type, road_name,
                             graph_info).action

\* attaching the explanation keeps action and parameters
ExplanationKeepsDecision ==
    (pc = "chosen" /\ pc' = "done") =>
        /\ decision'.action = decision.action
        /\ decision'.parameters = decision.parameters
        /\ decision'.explanation = ExplanationText

\* C12: a request executes classification, case retrieval, road resolution,
\* graph context, action selection, explanation in that order, each once;
\* the action is selected after the graph context of the same request, the
\* explanation after the action, and attaching it leaves action and
\* parameters unchanged.
C12_StagesInFixedOrder ==
    /\ []StagesInOrder
    /\ [][ExplanationKeepsDecision]_vars

\* C12 witness: a request that went through all stages and returned a
\* Decision with its explanation
C12_Witness ==
    /\ pc = "done"
    /\ Len(stages) = 8
    /\ stages[6] = "graph_context"
    /\ stages[7] = "action_selection"
    /\ stages[8] = "explanation"
    /\ decision.explanation = ExplanationText
    /\ decision.action = "rebalance_signal_timing"

\* C13: a message returned by generate_message(d) is built from the
\* observation d passed to that call, whatever the other callers of the
\* same agent do meanwhile.
C13_MessageFromOwnObservation ==
    \A c \in Callers :
        (vpc[c] = "returned" /\ varg[c] # NoneDict) =>
            /\ vmsg[c].kind = "llm"
            /\ vmsg[c].obs = varg[c]

\* one step of the single caller
VehicleCallSteps ==
    \* a call without argument and with nothing stored returns the fixed
    \* message, calls no collaborator, stores nothing
    /\ (vpc[1] = "entered" /\ last_observation = NoneDict) =>
          /\ varg[1] = NoneDict
          /\ vpc'[1] = "returned"
          /\ vmsg'[1] = NoObservationMessage
          /\ vcalls'[1] = <<>>
          /\ last_observation' = NoneDict
    \* the fixed message is returned in no other case
    /\ (vmsg'[1] = NoObservationMessage /\ vmsg[1] # NoObservationMessage) =>
          (varg[1] = NoneDict /\ last_observation = NoneDict)
    \* a call with an argument stores it first
    /\ (vpc'[1] = "entered" /\ varg'[1] # NoneDict) =>
          last_observation' = varg'[1]
    \* a call without argument stores nothing
    /\ (vpc'[1] = "entered" /\ varg'[1] = NoneDict) =>
          last_observation' = last_observation
    \* the message is built from the observation stored last
    /\ (vpc[1] = "read" /\ vpc'[1] = "returned") =>
          /\ vmsg'[1].kind = "llm"
          /\ vmsg'[1].obs = last_observation
          /\ vcalls'[1][1] = "rag.retrieve"
          /\ vcalls'[1][Len(vcalls'[1])] = "call_llm"

\* C15: on one VehicleAgent called sequentially, generate_message() before
\* any stored observation returns the fixed message without calling the
\* retriever, the graph or the text generator and leaves last_observation
\* unset; generate_message(d) first stores d; a later generate_message()
\* uses the observation stored last.
C15_VehicleCallSequence == [][VehicleCallSteps]_vars

\* C15 witness: a call without argument returned a message built from an
\* observation stored by an earlier call
C15_Witness ==
    /\ vpc[1] = "returned"
    /\ varg[1] = NoneDict
    /\ vmsg[1].kind = "llm"
    /\ vmsg[1].obs = last_observation
    /\ last_observation.vehicle_type = "ambulance"

====
